---------------------------- MODULE Spec2Model ----------------------------
(***************************************************************************)
(* ROMMER core: the overlay loop of main(), the deletion-list handlers,    *)
(* the directory copy, the platform-version comparator, download_rom,      *)
(* finalize_rom with the signing backends, the archive codec and the       *)
(* checksum functions.                                                     *)
(*                                                                         *)
(* The specifications share the variables:                                 *)
(*   Spec          the patch loop of main() on an extracted working tree   *)
(*   SpecVersion   android_version_matches applied to bounded inputs       *)
(*   SpecDownload  download_rom, one call                                  *)
(*   SpecFinalize  finalize_rom (finalize.rs), one call                    *)
(*   SpecPipeline  main() from the acquisition to the end of the build     *)
(*   SpecChecksum  verify_checksum applied to bounded inputs               *)
(*   SpecArchive   rezip_rom followed by unzip_rom                         *)
(*   SpecDryRun    the patch loop over the utils.rs functions, dry_run set *)
(***************************************************************************)
EXTENDS Integers, Sequences, FiniteSets, TLC

VARIABLES
    base,             \* the tree the base archive extracts to
    patches,          \* config.patches resolved to what lies on disk at each path
    android_version,  \* config.android_version
    tree,             \* the working tree under tmp_dir
    pc,               \* position in main()
    i,                \* 1-based index of the patch the loop is at
    outcome,          \* per patch: "pending", "Applied", "SkippedMissing", "SkippedFilter"
    log,              \* deletions performed/reported: <<patch index, item_type, path>>
    vr,               \* android_version_matches: one evaluation
    dl,               \* download_rom: one call
    fin,              \* finalize_rom (finalize.rs): one call
    build,            \* main(): the stages of one build
    ck,               \* verify_checksum: one evaluation
    ar                \* rezip_rom then unzip_rom: one round trip

overlayVars == <<base, patches, android_version, tree, pc, i, outcome, log>>
stageVars == <<fin, build, ck, ar>>
vars == <<base, patches, android_version, tree, pc, i, outcome, log, vr, dl, fin, build, ck, ar>>

-----------------------------------------------------------------------------
(* Bounds of the model *)

MaxPatches == 3

\* Longest requirement string drawn from the whole alphabet
MaxReqLen == 4

\* Largest config.max_retries
MaxRetries == 3

-----------------------------------------------------------------------------
(* Paths and trees *)

Root == << >>

AllPaths ==
    { <<"system">>,
      <<"system", "app">>,
      <<"system", "etc">>,
      <<"system", "app", "A.apk">>,
      <<"system", "etc", "b.conf">>,
      <<"system", "etc", "c.conf">>,
      <<"system", "patch.yaml">>,
      <<"patch.yaml">>,
      <<".rommerdel">>,
      <<".rommerfdel">> }

A_apk  == <<"system", "app", "A.apk">>
b_conf == <<"system", "etc", "b.conf">>
c_conf == <<"system", "etc", "c.conf">>
etc    == <<"system", "etc">>
app    == <<"system", "app">>

Parent(p) == SubSeq(p, 1, Len(p) - 1)

IsPrefix(p, q) == Len(p) <= Len(q) /\ SubSeq(q, 1, Len(p)) = p

Ancestors(p) == { q \in AllPaths : IsPrefix(q, p) /\ q # p }

Children(d) == { q \in AllPaths : Len(q) = Len(d) + 1 /\ Parent(q) = d }

file_name(p) == p[Len(p)]

Absent == [kind |-> "absent", content |-> -1]

DirEntry == [kind |-> "dir", content |-> -1]

FileEntry(c) == [kind |-> "file", content |-> c]

\* What lies at path p of tree t
At(t, p) ==
    IF p \in t.dirs THEN DirEntry
    ELSE IF p \in DOMAIN t.files THEN FileEntry(t.files[p])
    ELSE Absent

\* The tree with entry f[p] at every path p
Pack(f) ==
    [dirs  |-> { p \in AllPaths : f[p].kind = "dir" },
     files |-> [p \in { q \in AllPaths : f[q].kind = "file" } |-> f[p].content]]

\* A tree: its directories, and its regular files with their content
EmptyTree == Pack([p \in AllPaths |-> Absent])

\* The tree t with entry e at path p
Put(t, p, e) == Pack([q \in AllPaths |-> IF q = p THEN e ELSE At(t, q)])

\* The tree holding regular files `files` (content c) and directories `dirs`,
\* with every ancestor directory of either.
TreeOf(files, dirs, c) ==
    Pack([p \in AllPaths |->
            IF p \in files THEN FileEntry(c)
            ELSE IF \E q \in files \cup dirs : IsPrefix(p, q) THEN DirEntry
            ELSE Absent])

Files(t) == DOMAIN t.files

Dirs(t) == t.dirs

WellFormed(t) ==
    \A p \in AllPaths :
        At(t, p).kind # "absent" => \A q \in Ancestors(p) : At(t, q).kind = "dir"


-----------------------------------------------------------------------------
(* Patch sources: what lies on disk at one entry of config.patches *)

\* One line of a deletion list. `ws` says the line carries leading/trailing
\* white space; a blank (or white-space only) line has path = Root.
Line(ws, path) == [ws |-> ws, path |-> path]

BlankLine == Line(FALSE, Root)

NoList == [present |-> FALSE, lines |-> << >>]

List(lines) == [present |-> TRUE, lines |-> lines]

\* requires_android of patch.yaml: a string, as a sequence of characters
NoManifest == [present |-> FALSE, requires_android |-> << >>]

Manifest(req) == [present |-> TRUE, requires_android |-> req]

\* The regular files of a patch source other than its control files
Payloads ==
    { {},
      {c_conf},
      {b_conf, <<"system", "patch.yaml">>},
      {etc} }

\* .rommerdel
DelLists ==
    { NoList,
      List(<< BlankLine, Line(FALSE, A_apk), Line(TRUE, etc), Line(FALSE, etc) >>) }

\* .rommerfdel
FdelLists ==
    { NoList,
      List(<< Line(FALSE, b_conf) >>),
      List(<< Line(FALSE, etc), Line(TRUE, Root), Line(TRUE, c_conf) >>) }

Manifests == { NoManifest, Manifest(<<">", "=", "1", "5">>) }

MissingSource ==
    [exists |-> FALSE, payload |-> {}, del |-> NoList, fdel |-> NoList,
     manifest |-> NoManifest]

\* A patch source holding the regular files `payload`, the two deletion lists
\* and the manifest (each of the three a file of its own when present)
PatchSource(payload, del, fdel, manifest) ==
    [exists |-> TRUE, payload |-> payload, del |-> del, fdel |-> fdel,
     manifest |-> manifest]

\* The directory tree of patch source src; its files carry content k, the
\* position of the source in config.patches
SourceTree(src, k) ==
    IF ~src.exists THEN EmptyTree
    ELSE TreeOf(src.payload
                  \cup (IF src.del.present THEN {<<".rommerdel">>} ELSE {})
                  \cup (IF src.fdel.present THEN {<<".rommerfdel">>} ELSE {})
                  \cup (IF src.manifest.present THEN {<<"patch.yaml">>} ELSE {}),
                {}, k)

\* How many of the three control files a patch source carries
ControlFiles(d, f, m) ==
    (IF d.present THEN 1 ELSE 0) + (IF f.present THEN 1 ELSE 0)
        + (IF m.present THEN 1 ELSE 0)

\* The patch sources drawn: a missing folder, and the folders with any payload
\* and at most one control file (a list of several patches combines them); the
\* payload that puts a regular file where the tree has a directory comes alone
PatchSources ==
    { MissingSource } \cup
    { src \in { PatchSource(pl, d, f, m) :
                  pl \in Payloads, d \in DelLists, f \in FdelLists, m \in Manifests } :
        /\ ControlFiles(src.del, src.fdel, src.manifest) <= 1
        /\ src.payload = {etc} => ControlFiles(src.del, src.fdel, src.manifest) = 0 }
    \cup
    \* folders that carry both lists and a file under a directory they delete
    { PatchSource({c_conf}, d, f, NoManifest) :
        d \in DelLists \ {NoList}, f \in FdelLists \ {NoList} }

\* Base archives as extracted by unzip_rom into the fresh temporary directory
BaseTrees ==
    { TreeOf({A_apk, b_conf}, {}, 0),
      TreeOf({A_apk, c_conf}, {app, etc}, 0) }

AndroidVersions == {14, 15}

-----------------------------------------------------------------------------
(* utils.rs / main.rs: the file operations of the overlay *)

Ok(t) == [ok |-> TRUE, tree |-> t, acted |-> {}]

Err == [ok |-> FALSE, tree |-> EmptyTree, acted |-> {}]

\* The elements of a finite set in some order (fs::read_dir gives no order)
RECURSIVE SetToSeq(_)
SetToSeq(S) ==
    IF S = {} THEN << >>
    ELSE LET x == CHOOSE y \in S : TRUE IN << x >> \o SetToSeq(S \ {x})

\* fs::remove_dir_all(p): p and everything under it
remove_dir_all(t, p) ==
    Pack([q \in AllPaths |-> IF IsPrefix(p, q) THEN Absent ELSE At(t, q)])

\* fs::remove_file(p)
remove_file(t, p) == Put(t, p, Absent)

\* read_paths: every line trimmed, the empty ones dropped
RECURSIVE read_paths(_)
read_paths(lines) ==
    IF lines = << >> THEN << >>
    ELSE LET trimmed == Head(lines).path
         IN  (IF trimmed # Root THEN << trimmed >> ELSE << >>)
                 \o read_paths(Tail(lines))

\* Mutant of delete_dirs: the is_dir() test is dropped
RECURSIVE delete_dirs_any_kind(_, _, _)
delete_dirs_any_kind(items, t, dry_run) ==
    IF items = << >> THEN Ok(t)
    ELSE LET item == Head(items)
             hit  == item \in AllPaths /\ At(t, item).kind # "absent"
             t1   == IF hit /\ ~dry_run THEN remove_dir_all(t, item) ELSE t
             rest == delete_dirs_any_kind(Tail(items), t1, dry_run)
         IN  [rest EXCEPT !.acted = IF hit THEN @ \cup {item} ELSE @]

\* The loop of handle_deletions over items_to_delete, from the tree t
RECURSIVE delete_dirs(_, _, _)
delete_dirs(items, t, dry_run) ==
    IF items = << >> THEN Ok(t)
    ELSE LET item == Head(items)
             hit  == item \in AllPaths /\ At(t, item).kind = "dir"
             t1   == IF hit /\ ~dry_run THEN remove_dir_all(t, item) ELSE t
             rest == delete_dirs(Tail(items), t1, dry_run)
         IN  [rest EXCEPT !.acted = IF hit THEN @ \cup {item} ELSE @]

\* handle_deletions(patch_path, tmp_dir, ".rommerdel", "directory", dry_run)
handle_deletions(patch, t, dry_run) ==
    IF At(patch.tree, <<".rommerdel">>).kind = "absent" THEN Ok(t)
    ELSE IF At(patch.tree, <<".rommerdel">>).kind = "dir" THEN Err
    ELSE delete_dirs(read_paths(patch.del.lines), t, dry_run)

\* The loop of handle_file_deletions over items_to_delete
RECURSIVE delete_files(_, _, _)
delete_files(items, t, dry_run) ==
    IF items = << >> THEN Ok(t)
    ELSE LET item == Head(items)
             hit  == item \in AllPaths /\ At(t, item).kind = "file"
             t1   == IF hit /\ ~dry_run THEN remove_file(t, item) ELSE t
             rest == delete_files(Tail(items), t1, dry_run)
         IN  [rest EXCEPT !.acted = IF hit THEN @ \cup {item} ELSE @]

\* handle_file_deletions(patch_path, tmp_dir, ".rommerfdel", "file", dry_run)
handle_file_deletions(patch, t, dry_run) ==
    IF At(patch.tree, <<".rommerfdel">>).kind = "absent" THEN Ok(t)
    ELSE IF At(patch.tree, <<".rommerfdel">>).kind = "dir" THEN Err
    ELSE delete_files(read_paths(patch.fdel.lines), t, dry_run)

\* Mutant of fs_copy: an existing destination file is kept, not overwritten
fs_copy_keep_existing(src, p, dst) ==
    IF At(dst, p).kind = "dir" THEN Err
    ELSE IF At(dst, p).kind = "file" THEN Ok(dst)
    ELSE Ok(Put(dst, p, At(src, p)))

\* fs::copy(src/p, dst/p): fails when the destination is a directory
fs_copy(src, p, dst) ==
    IF At(dst, p).kind = "dir" THEN Err ELSE Ok(Put(dst, p, At(src, p)))

\* copy_dir_all: the directory `dir` of src onto the same directory of dst.
\* skip_manifest: the entry test `file_name != "patch.yaml"` is present.
RECURSIVE copy_dir(_, _, _, _), copy_entries(_, _, _, _)
copy_dir(src, dir, dst, skip_manifest) ==
    \* fs::create_dir_all(&dst)
    IF dir # Root /\ At(dst, dir).kind = "file" THEN Err
    ELSE copy_entries(src, SetToSeq({ q \in Children(dir) : At(src, q).kind # "absent" }),
                      IF dir = Root THEN dst ELSE Put(dst, dir, DirEntry),
                      skip_manifest)

copy_entries(src, entries, dst, skip_manifest) ==
    IF entries = << >> THEN Ok(dst)
    ELSE LET entry == Head(entries)
             r == IF At(src, entry).kind = "dir"
                      THEN copy_dir(src, entry, dst, skip_manifest)
                  ELSE IF skip_manifest /\ file_name(entry) = "patch.yaml"
                      THEN Ok(dst)
                  ELSE fs_copy(src, entry, dst)
         IN  IF r.ok THEN copy_entries(src, Tail(entries), r.tree, skip_manifest)
             ELSE Err

\* utils.rs copy_dir_all(src, dst, dry_run)
copy_dir_all(src, dst, dry_run) ==
    IF dry_run THEN Ok(dst) ELSE copy_dir(src, Root, dst, TRUE)

\* main.rs copy_dir_all(src, dst), the one main() calls
copy_dir_all_main(src, dst) == copy_dir(src, Root, dst, FALSE)

-----------------------------------------------------------------------------
(* utils.rs android_version_matches, patchmeta.rs load_patch_meta *)

Digits == {"0", "1", "2", "3", "4", "5", "6", "7", "8", "9"}

DigitValue(c) ==
    CASE c = "0" -> 0 [] c = "1" -> 1 [] c = "2" -> 2 [] c = "3" -> 3 [] c = "4" -> 4
      [] c = "5" -> 5 [] c = "6" -> 6 [] c = "7" -> 7 [] c = "8" -> 8 [] c = "9" -> 9

IsSpace(c) == c = " "

RECURSIVE trim_start(_)
trim_start(s) ==
    IF s # << >> /\ IsSpace(Head(s)) THEN trim_start(Tail(s)) ELSE s

RECURSIVE trim_end(_)
trim_end(s) ==
    IF s # << >> /\ IsSpace(s[Len(s)]) THEN trim_end(SubSeq(s, 1, Len(s) - 1)) ELSE s

\* str::trim
trim(s) == trim_end(trim_start(s))

StartsWith(s, pre) == Len(pre) <= Len(s) /\ SubSeq(s, 1, Len(pre)) = pre

AllDigits(s) == \A k \in 1..Len(s) : s[k] \in Digits

\* The alternatives of capture group 1, in the order the regex tries them;
\* the last one is the group left out
OpAlternatives == << <<">", "=">>, <<"<", "=">>, <<"=">>, <<">">>, <<"<">>, << >> >>

NoCaptures == [matched |-> FALSE, op |-> << >>, digits |-> << >>]

\* Regex ^(>=|<=|=|>|<)?\s*(\d+)$ on s, trying alternative k and the later ones
RECURSIVE captures_from(_, _)
captures_from(s, k) ==
    IF k > Len(OpAlternatives) THEN NoCaptures
    ELSE LET op   == OpAlternatives[k]
             rest == IF StartsWith(s, op)
                     THEN trim_start(SubSeq(s, Len(op) + 1, Len(s)))
                     ELSE << >>
         IN  IF StartsWith(s, op) /\ rest # << >> /\ AllDigits(rest)
             THEN [matched |-> TRUE, op |-> op, digits |-> rest]
             ELSE captures_from(s, k + 1)

captures(s) == captures_from(s, 1)

\* str::parse::<u32> of a string of digits: checked multiply-and-add, left to right
RECURSIVE parse_u32_from(_, _)
parse_u32_from(ds, acc) ==
    IF ds = << >> THEN [ok |-> TRUE, val |-> acc]
    ELSE LET d == DigitValue(Head(ds))
         IN  IF acc > 429496729 \/ (acc = 429496729 /\ d > 5)
             THEN [ok |-> FALSE, val |-> 0]
             ELSE parse_u32_from(Tail(ds), acc * 10 + d)

parse_u32(ds) == parse_u32_from(ds, 0)

\* utils.rs 161-178
android_version_matches(requirement, current) ==
    LET caps == captures(trim(requirement))
    IN  IF caps.matched
        THEN LET op     == IF caps.op = << >> THEN <<"=">> ELSE caps.op
                 parsed == parse_u32(caps.digits)
                 ver    == IF parsed.ok THEN parsed.val ELSE current
             IN  CASE op = <<"=">>      -> current = ver
                   [] op = <<">">>      -> current > ver
                   [] op = <<"<">>      -> current < ver
                   [] op = <<">", "=">> -> current >= ver
                   [] op = <<"<", "=">> -> current <= ver
                   [] OTHER             -> TRUE
        ELSE TRUE

\* patchmeta.rs 14-22: the descriptor of a patch source, if it has a manifest
load_patch_meta(patch) ==
    IF At(patch.tree, <<"patch.yaml">>).kind = "absent"
    THEN [some |-> FALSE, requires_android |-> [some |-> FALSE, val |-> << >>]]
    ELSE [some |-> TRUE,
          requires_android |-> [some |-> TRUE, val |-> patch.manifest.requires_android]]

-----------------------------------------------------------------------------
(* main.rs: the patch loop of main() *)

\* The patch source at position k of config.patches, as a directory on disk
Src(k) ==
    [exists   |-> patches[k].exists,
     tree     |-> SourceTree(patches[k], k),
     del      |-> patches[k].del,
     fdel     |-> patches[k].fdel,
     manifest |-> patches[k].manifest]

\* The other components at rest
VrIdle == [pc |-> "idle"]

OverlayIdle ==
    /\ base = EmptyTree
    /\ patches = << >>
    /\ android_version = 14
    /\ tree = EmptyTree
    /\ pc = "idle"
    /\ i = 1
    /\ outcome = << >>
    /\ log = {}

DlIdle == [pc |-> "idle"]

\* A stage function that is not called in the specification at hand
Idle == [pc |-> "idle"]

StagesIdle ==
    /\ fin = Idle
    /\ build = Idle
    /\ ck = Idle
    /\ ar = Idle

\* main.rs 58-61: the base archive extracted into a fresh temporary directory
Init ==
    /\ \E n \in 0..MaxPatches : patches \in [1..n -> PatchSources]
    /\ android_version \in AndroidVersions
    /\ base \in BaseTrees
    /\ tree = base
    /\ pc = "loop"
    /\ i = 1
    /\ outcome = [k \in 1..Len(patches) |-> "pending"]
    /\ log = {}
    /\ vr = VrIdle
    /\ dl = DlIdle
    /\ StagesIdle

\* `?` out of main(): the TempDir is dropped, which removes the working tree
Abort ==
    /\ pc' = "failed"
    /\ tree' = EmptyTree
    /\ UNCHANGED <<i, outcome, log>>

\* Mutant of NextPatch: a missing patch folder is an error
NextPatch_abort_missing ==
    /\ pc = "loop"
    /\ i <= Len(patches)
    /\ IF ~patches[i].exists
       THEN Abort
       ELSE /\ pc' = "copy"
            /\ UNCHANGED <<i, outcome, tree, log>>
    /\ UNCHANGED <<base, patches, android_version, vr, dl, stageVars>>

\* main.rs 62-67: the existence check of the next patch folder
NextPatch ==
    /\ pc = "loop"
    /\ i <= Len(patches)
    /\ IF ~patches[i].exists
       THEN /\ outcome' = [outcome EXCEPT ![i] = "SkippedMissing"]
            /\ i' = i + 1
            /\ UNCHANGED <<pc, tree, log>>
       ELSE /\ pc' = "copy"
            /\ UNCHANGED <<i, outcome, tree, log>>
    /\ UNCHANGED <<base, patches, android_version, vr, dl, stageVars>>

\* main.rs 71-72
CopyPatch ==
    /\ pc = "copy"
    /\ LET r == copy_dir_all_main(Src(i).tree, tree)
       IN  IF r.ok
           THEN /\ tree' = r.tree
                /\ pc' = "del"
                /\ UNCHANGED <<i, outcome, log>>
           ELSE Abort
    /\ UNCHANGED <<base, patches, android_version, vr, dl, stageVars>>

\* Mutant of DirDeletions: the patch is copied after its directory list
DirDeletions_before_copy ==
    /\ pc = "del"
    /\ LET r == handle_deletions(Src(i), tree, FALSE)
           c == IF r.ok THEN copy_dir_all_main(Src(i).tree, r.tree) ELSE Err
       IN  IF c.ok
           THEN /\ tree' = c.tree
                /\ log' = log \cup { <<i, "directory", item>> : item \in r.acted }
                /\ pc' = "fdel"
                /\ UNCHANGED <<i, outcome>>
           ELSE Abort
    /\ UNCHANGED <<base, patches, android_version, vr, dl, stageVars>>

\* main.rs 73
DirDeletions ==
    /\ pc = "del"
    /\ LET r == handle_deletions(Src(i), tree, FALSE)
       IN  IF r.ok
           THEN /\ tree' = r.tree
                /\ log' = log \cup { <<i, "directory", item>> : item \in r.acted }
                /\ pc' = "fdel"
                /\ UNCHANGED <<i, outcome>>
           ELSE Abort
    /\ UNCHANGED <<base, patches, android_version, vr, dl, stageVars>>

\* The file-deletion lists of patches 1..k, one after the other
RECURSIVE fdel_upto(_, _)
fdel_upto(k, t) ==
    IF k = 0 THEN Ok(t)
    ELSE LET r == fdel_upto(k - 1, t)
         IN  IF r.ok THEN handle_file_deletions(Src(k), r.tree, FALSE) ELSE Err

\* Mutant of FileDeletions: the lists of the earlier patches are applied again
FileDeletions_sticky ==
    /\ pc = "fdel"
    /\ LET r == fdel_upto(i, tree)
       IN  IF r.ok
           THEN /\ tree' = r.tree
                /\ log' = log \cup { <<i, "file", item>> : item \in r.acted }
                /\ outcome' = [outcome EXCEPT ![i] = "Applied"]
                /\ i' = i + 1
                /\ pc' = "loop"
           ELSE Abort
    /\ UNCHANGED <<base, patches, android_version, vr, dl, stageVars>>

\* main.rs 74-75
FileDeletions ==
    /\ pc = "fdel"
    /\ LET r == handle_file_deletions(Src(i), tree, FALSE)
       IN  IF r.ok
           THEN /\ tree' = r.tree
                /\ log' = log \cup { <<i, "file", item>> : item \in r.acted }
                /\ outcome' = [outcome EXCEPT ![i] = "Applied"]
                /\ i' = i + 1
                /\ pc' = "loop"
           ELSE Abort
    /\ UNCHANGED <<base, patches, android_version, vr, dl, stageVars>>

\* main.rs 76-78: the loop is over, the working tree is kept for finalize_rom
PatchingComplete ==
    /\ pc = "loop"
    /\ i > Len(patches)
    /\ pc' = "patched"
    /\ UNCHANGED <<base, patches, android_version, tree, i, outcome, log, vr, dl, stageVars>>

Next ==
    \/ NextPatch
    \/ CopyPatch
    \/ DirDeletions
    \/ FileDeletions
    \/ PatchingComplete

Spec == Init /\ [][Next]_vars

TypeOK ==
    /\ WellFormed(tree)
    /\ pc \in {"loop", "copy", "del", "fdel", "patched", "failed"}
    /\ i \in 1..(Len(patches) + 1)

-----------------------------------------------------------------------------
(* Claims about the overlay loop (specification Spec) *)

Applied(k) == outcome[k] = "Applied"

ContainsFile(k, p) == patches[k].exists /\ At(Src(k).tree, p).kind = "file"

\* The paths a deletion list names: its lines without white space, blanks left out
ListedIn(list) == { list.lines[n].path : n \in 1..Len(list.lines) } \ {Root}

\* Patch k names p in its file list or a directory above p in its directory list
DeletedBy(k, p) ==
    \/ p \in ListedIn(patches[k].fdel)
    \/ \E q \in Ancestors(p) : q \in ListedIn(patches[k].del)

\* Patch k names p for deletion in one of its lists, or a directory above p
ListsForDeletion(k, p) == DeletedBy(k, p) \/ p \in ListedIn(patches[k].del)

NotDeletedFrom(b, p) == \A k \in b..Len(patches) : Applied(k) => ~DeletedBy(k, p)

NotWrittenAfter(b, p) ==
    \A k \in (b + 1)..Len(patches) : ~(Applied(k) /\ ContainsFile(k, p))

\* Patches are decided one at a time, in the order of config.patches
InListOrder == \A k \in 1..Len(patches) : (outcome[k] # "pending") <=> (k < i)

\* C1 as stated: when applied patches Pa and Pb (a < b) both contain a regular
\* file at p, the tree holds Pb's content at p after the overlay stage.
C1_LastWriteWins_AsStated ==
    pc = "patched" =>
        \A b \in 1..Len(patches) : \A a \in 1..(b - 1) : \A p \in AllPaths :
            (Applied(a) /\ Applied(b) /\ ContainsFile(a, p) /\ ContainsFile(b, p))
                => At(tree, p) = FileEntry(b)

\* C1 amended: patches are processed strictly in list order, one at a time, and
\* when applied patches Pa and Pb (a < b) both contain a regular file at p, no
\* applied patch after Pb contains a file at p, and no applied patch from Pb on
\* names p in its file-deletion list or a directory above p in its
\* directory-deletion list, the tree holds Pb's content at p after the overlay.
C1_LastWriteWins ==
    /\ InListOrder
    /\ pc = "patched" =>
        \A b \in 1..Len(patches) : \A a \in 1..(b - 1) : \A p \in AllPaths :
            (/\ Applied(a) /\ Applied(b)
             /\ ContainsFile(a, p) /\ ContainsFile(b, p)
             /\ NotWrittenAfter(b, p)
             /\ NotDeletedFrom(b, p))
                => At(tree, p) = FileEntry(b)

C1_Witness ==
    /\ pc = "patched"
    /\ Len(patches) = 2
    /\ Applied(1) /\ Applied(2)
    /\ ContainsFile(1, b_conf) /\ ContainsFile(2, b_conf)
    /\ At(tree, b_conf) = FileEntry(2)

\* C2 as stated: when applied patch Pa names p for deletion and a later applied
\* patch Pb contains a file at p, p holds Pb's content at the end.
C2_DeletionsNotSticky_AsStated ==
    pc = "patched" =>
        \A b \in 1..Len(patches) : \A a \in 1..(b - 1) : \A p \in AllPaths :
            (Applied(a) /\ Applied(b) /\ ListsForDeletion(a, p) /\ ContainsFile(b, p))
                => At(tree, p) = FileEntry(b)

\* C2 amended: when applied patch Pa names p for deletion and a later applied
\* patch Pb contains a file at p, then p holds Pb's content at the end, provided
\* no applied patch from Pb on names p (or a directory above it) for deletion and
\* no applied patch after Pb contains a file at p.
C2_DeletionsNotSticky ==
    pc = "patched" =>
        \A b \in 1..Len(patches) : \A a \in 1..(b - 1) : \A p \in AllPaths :
            (/\ Applied(a) /\ Applied(b)
             /\ ListsForDeletion(a, p) /\ ContainsFile(b, p)
             /\ NotWrittenAfter(b, p)
             /\ NotDeletedFrom(b, p))
                => At(tree, p) = FileEntry(b)

\* Patch 1 removed b.conf from the tree, patch 2 brought it back
C2_Witness ==
    /\ pc = "patched"
    /\ Len(patches) = 2
    /\ <<1, "file", b_conf>> \in log
    /\ Applied(2) /\ ContainsFile(2, b_conf)
    /\ At(tree, b_conf) = FileEntry(2)

ScenarioBase == TreeOf({A_apk, b_conf}, {}, 0)

ScenarioPatches ==
    << PatchSource({c_conf}, NoList, NoList, NoManifest),
       PatchSource({}, NoList, List(<< Line(FALSE, b_conf) >>), NoManifest) >>

\* C3: base {A.apk, b.conf}, patch1 adds c.conf, patch2's file-deletion list
\* names b.conf: the regular files of the final tree are exactly A.apk (from
\* the base) and c.conf (from patch1).
C3_Scenario ==
    (pc = "patched" /\ base = ScenarioBase /\ patches = ScenarioPatches) =>
        /\ Files(tree) = {A_apk, c_conf}
        /\ At(tree, A_apk) = FileEntry(0)
        /\ At(tree, c_conf) = FileEntry(1)

\* C4: a patch folder that does not exist is skipped: the step leaves the tree
\* and the deletion log unchanged, raises no error and moves to the next patch;
\* when the loop is over every patch folder that exists has been applied.
C4_SkippedMissing ==
    /\ [][(pc = "loop" /\ i <= Len(patches) /\ ~patches[i].exists) =>
            (/\ tree' = tree
             /\ log' = log
             /\ pc' = "loop"
             /\ i' = i + 1
             /\ outcome' = [outcome EXCEPT ![i] = "SkippedMissing"])]_vars
    /\ [](pc = "patched" =>
            \A k \in 1..Len(patches) :
                outcome[k] = IF patches[k].exists THEN "Applied" ELSE "SkippedMissing")

C4_Witness ==
    /\ pc = "patched"
    /\ Len(patches) = 2
    /\ ~patches[1].exists /\ outcome[1] = "SkippedMissing"
    /\ ContainsFile(2, c_conf) /\ Applied(2)
    /\ At(tree, c_conf) = FileEntry(2)

\* The platform-version constraint of patch k is declared and not satisfied
FilterFails(k) ==
    LET meta == load_patch_meta(Src(k))
    IN  /\ patches[k].exists
        /\ meta.some
        /\ meta.requires_android.some
        /\ ~android_version_matches(meta.requires_android.val, android_version)

\* C5: a patch whose declared platform-version constraint is not satisfied ends
\* in SkippedFilter, none of its files is in the tree and none of its deletion
\* lists has been processed.
C5_SkippedFilter ==
    \A k \in 1..Len(patches) :
        (k < i /\ FilterFails(k)) =>
            /\ outcome[k] = "SkippedFilter"
            /\ \A p \in AllPaths : At(tree, p) # FileEntry(k)
            /\ \A e \in log : e[1] # k

\* The tree after a directory-deletion list: what lies at or under a named
\* path that is a directory is gone, everything else is as before
AfterDirList(t, list) ==
    Pack([q \in AllPaths |->
            IF \E p \in ListedIn(list) : At(t, p).kind = "dir" /\ IsPrefix(p, q)
            THEN Absent ELSE At(t, q)])

\* The tree after a file-deletion list: the named regular files are gone
AfterFileList(t, list) ==
    Pack([q \in AllPaths |->
            IF q \in ListedIn(list) /\ At(t, q).kind = "file" THEN Absent ELSE At(t, q)])

\* C7: processing a deletion list raises no error; the directory list removes
\* (recursively) exactly the named paths that are directories, the file list
\* exactly the named paths that are regular files; a named path that does not
\* exist or is of the other kind, and a blank line, change nothing.
C7_DeletionLists ==
    /\ [][pc = "del" =>
            /\ pc' = "fdel"
            /\ tree' = AfterDirList(tree, patches[i].del)]_vars
    /\ [][pc = "fdel" =>
            /\ pc' = "loop"
            /\ tree' = AfterFileList(tree, patches[i].fdel)]_vars

\* After a directory list that names a regular file (kept), a directory
\* (removed with its content) and a path that no longer exists
C7_Witness ==
    /\ pc = "fdel"
    /\ ListedIn(patches[i].del) = {A_apk, etc}
    /\ At(tree, A_apk).kind = "file"
    /\ At(tree, etc).kind = "absent"
    /\ \A p \in {b_conf, c_conf} : At(tree, p).kind = "absent"
    /\ <<i, "directory", etc>> \in log

\* C8: right after the copy of patch i, every regular file of the patch source
\* other than its manifest is in the tree with the patch's content, and the
\* manifest has not been copied.
C8_CopyAllButManifest ==
    pc = "del" =>
        /\ \A p \in AllPaths \ {<<"patch.yaml">>} :
               At(Src(i).tree, p).kind = "file" => At(tree, p) = FileEntry(i)
        /\ At(tree, <<"patch.yaml">>) # FileEntry(i)

-----------------------------------------------------------------------------
(* Specification SpecVersion: android_version_matches on bounded inputs *)

ReqChars == {" ", ">", "<", "=", "1", "5", "x"}

RECURSIVE StringsUpTo(_)
StringsUpTo(n) ==
    IF n = 0 THEN { << >> }
    ELSE StringsUpTo(n - 1) \cup
         { Append(str, c) : str \in { x \in StringsUpTo(n - 1) : Len(x) = n - 1 },
                            c \in ReqChars }

\* 99999999999 does not fit a u32
BigNumber == <<"9", "9", "9", "9", "9", "9", "9", "9", "9", "9", "9">>

Requirements ==
    StringsUpTo(MaxReqLen) \cup
    { op \o BigNumber : op \in { OpAlternatives[k] : k \in 1..Len(OpAlternatives) } }

Currents == {1, 5, 14, 15, 16}

InitVersion ==
    /\ OverlayIdle
    /\ vr \in { [pc |-> "call", requirement |-> r, current |-> c, result |-> FALSE] :
                    r \in Requirements, c \in Currents }
    /\ dl = DlIdle
    /\ StagesIdle

\* One call android_version_matches(requirement, current)
Evaluate ==
    /\ vr.pc = "call"
    /\ vr' = [vr EXCEPT !.pc = "done",
                        !.result = android_version_matches(vr.requirement, vr.current)]
    /\ UNCHANGED <<overlayVars, dl, stageVars>>

NextVersion == Evaluate

SpecVersion == InitVersion /\ [][NextVersion]_vars

-----------------------------------------------------------------------------
(* Claims about android_version_matches (specification SpecVersion) *)

DigitChar(d) ==
    CASE d = 0 -> "0" [] d = 1 -> "1" [] d = 2 -> "2" [] d = 3 -> "3" [] d = 4 -> "4"
      [] d = 5 -> "5" [] d = 6 -> "6" [] d = 7 -> "7" [] d = 8 -> "8" [] d = 9 -> "9"

\* The decimal digits of a natural number, none for 0
RECURSIVE ToDigits(_)
ToDigits(n) == IF n = 0 THEN << >> ELSE Append(ToDigits(n \div 10), DigitChar(n % 10))

RECURSIVE StripZeros(_)
StripZeros(ds) == IF ds # << >> /\ Head(ds) = "0" THEN StripZeros(Tail(ds)) ELSE ds

\* -1, 0, 1 as the number written a is below, equal to, above the number written b
\* (digit strings without leading zeros, of any length)
RECURSIVE CmpSameLen(_, _)
CmpSameLen(a, b) ==
    IF a = << >> THEN 0
    ELSE IF DigitValue(Head(a)) < DigitValue(Head(b)) THEN -1
    ELSE IF DigitValue(Head(a)) > DigitValue(Head(b)) THEN 1
    ELSE CmpSameLen(Tail(a), Tail(b))

CmpDigits(a, b) ==
    IF Len(a) < Len(b) THEN -1
    ELSE IF Len(a) > Len(b) THEN 1
    ELSE CmpSameLen(a, b)

OpSet == { <<">", "=">>, <<"<", "=">>, <<"=">>, <<">">>, <<"<">> }

\* The readings of s as [op] N: an operator or none, white space, then digits
GrammarReadings(s) ==
    { <<op, j>> \in (OpSet \cup { << >> }) \X (0..Len(s)) :
        /\ StartsWith(s, op)
        /\ Len(op) <= j /\ j < Len(s)
        /\ \A k \in (Len(op) + 1)..j : IsSpace(s[k])
        /\ \A k \in (j + 1)..Len(s) : s[k] \in Digits }

\* current op N, with N given by its digits
Compares(op, current, digits) ==
    LET c == CmpDigits(ToDigits(current), StripZeros(digits))
    IN  CASE op = <<">", "=">> -> c >= 0
          [] op = <<"<", "=">> -> c <= 0
          [] op = <<">">>      -> c > 0
          [] op = <<"<">>      -> c < 0
          [] OTHER             -> c = 0

\* What the single-comparator grammar gives for requirement and current
GrammarResult(requirement, current) ==
    LET s == trim(requirement)
        readings == GrammarReadings(s)
    IN  IF readings = {} THEN TRUE
        ELSE LET r == CHOOSE x \in readings : TRUE
             IN  Compares(r[1], current, SubSeq(s, r[2] + 1, Len(s)))

\* C6: for a requirement [op]N (white space around the parts allowed, as the
\* regex allows it) the result is exactly (current op N), for every current
\* and every integer N; for every other requirement the result is TRUE.
C6_SingleComparator ==
    vr.pc = "done" => vr.result = GrammarResult(vr.requirement, vr.current)

\* The same, for the requirements whose N fits a u32
VersionMatchesWithinU32 ==
    (vr.pc = "done" /\ Len(vr.requirement) <= MaxReqLen) =>
        vr.result = GrammarResult(vr.requirement, vr.current)

-----------------------------------------------------------------------------
(* checksum.rs, download.rs: digests and download_rom *)

None == [some |-> FALSE, val |-> << >>]

Some(v) == [some |-> TRUE, val |-> v]

\* File contents and response bodies are sequences of chunks
GoodBody == <<"A", "B">>

BadBody == <<"X">>

\* SHA-256 in lower-case hex, shortened: distinct contents, distinct digests
sha256_hex(content) ==
    CASE content = << >>      -> <<"e", "3", "b", "0">>
      [] content = <<"A">>    -> <<"5", "5", "9", "a">>
      [] content = GoodBody   -> <<"3", "8", "a", "f">>
      [] content = BadBody    -> <<"4", "b", "6", "8">>
      [] OTHER                -> <<"f", "f", "f", "f">>

LowerChar(c) ==
    CASE c = "A" -> "a" [] c = "B" -> "b" [] c = "C" -> "c" [] c = "D" -> "d"
      [] c = "E" -> "e" [] c = "F" -> "f" [] OTHER -> c

\* str::to_lowercase
to_lowercase(str) == [k \in 1..Len(str) |-> LowerChar(str[k])]

NoFile == [exists |-> FALSE, readable |-> FALSE, content |-> << >>]

FileWith(content) == [exists |-> TRUE, readable |-> TRUE, content |-> content]

UnreadableFile == [exists |-> TRUE, readable |-> FALSE, content |-> GoodBody]

\* checksum.rs 6-26
calculate_file_checksum(file) ==
    IF file.exists /\ file.readable
    THEN [ok |-> TRUE, val |-> sha256_hex(file.content)]
    ELSE [ok |-> FALSE, val |-> << >>]

\* Mutant of verify_checksum: the digests compared as they are
verify_checksum_exact(file, expected) ==
    LET calculated == calculate_file_checksum(file)
    IN  IF calculated.ok
        THEN [ok |-> TRUE, val |-> calculated.val = expected]
        ELSE [ok |-> FALSE, val |-> FALSE]

\* checksum.rs 29-32
verify_checksum(file, expected) ==
    LET calculated == calculate_file_checksum(file)
    IN  IF calculated.ok
        THEN [ok |-> TRUE, val |-> to_lowercase(calculated.val) = to_lowercase(expected)]
        ELSE [ok |-> FALSE, val |-> FALSE]

\* config.rom, in tokens: a leading "http" is a token of its own. Among them
\* a URL of another scheme, and a name that begins with "http" and is no URL.
Roms ==
    { <<"http", "s://mirror.example/rom.zip">>,
      <<"ftp://mirror.example/rom.zip">>,
      <<"http", "d-rom">>,
      <<"lineageos">>,
      <<"LineageOS">>,
      <<"crdroid">> }

KnownRoms == { <<"lineageos">>, <<"pixelexperience">>, <<"evolutionx">> }

lower_rom(rom) == IF rom = <<"LineageOS">> THEN <<"lineageos">> ELSE rom

starts_with_http(rom) == rom # << >> /\ Head(rom) = "http"

\* download.rs 177-198: Ok with the URL, or the error "Unsupported ROM"
construct_download_url(rom) ==
    IF starts_with_http(rom) THEN [ok |-> TRUE, val |-> rom]
    ELSE IF lower_rom(rom) \in KnownRoms
         THEN [ok |-> TRUE, val |-> <<"base_url">> \o lower_rom(rom) \o <<"/builds/device/version">>]
         ELSE [ok |-> FALSE, val |-> << >>]

\* utils.rs 7-25 run_hook: "none" no script registered, else the script's exit
run_hook(script) ==
    [spawned |-> IF script = "none" THEN 0 ELSE 1,
     ok      |-> script # "fail"]

\* Mutant of retry_sleeps: the back-off also follows the last allowed attempt
retry_sleeps_always(attempt, max_retries) == attempt <= max_retries

\* download.rs 47, 61: a failed attempt is followed by the back-off sleep
retry_sleeps(attempt, max_retries) == attempt < max_retries

Expecteds ==
    { None,
      Some(sha256_hex(GoodBody)),
      Some(<<"3", "8", "A", "F">>),
      Some(<<"0", "0", "0", "0">>) }

\* hook and pre_hook: what config.hooks registers under "post-download" and
\* under "pre-download" ("none": no script; else how the script exits)
InitDownload ==
    /\ OverlayIdle
    /\ vr = VrIdle
    /\ StagesIdle
    /\ dl \in { [pc            |-> "start",
                 dry_run       |-> d,
                 rom           |-> r,
                 max_retries   |-> m,
                 expected_checksum |-> e,
                 hook          |-> h,
                 pre_hook      |-> ph,
                 body          |-> b,
                 file0         |-> f,
                 file          |-> f,
                 attempt       |-> 1,
                 events        |-> << >>,
                 response      |-> FALSE,
                 last_error    |-> "none",
                 remaining     |-> << >>,
                 hasher        |-> << >>,
                 spawned       |-> 0,
                 result        |-> "pending"] :
                d \in BOOLEAN, r \in Roms, m \in 0..MaxRetries, e \in Expecteds,
                h \in {"none", "ok", "fail"}, ph \in {"none", "ok"}, b \in {GoodBody, BadBody},
                f \in {NoFile, FileWith(GoodBody), FileWith(<<"A">>), UnreadableFile} }

Return(result) == [dl EXCEPT !.pc = "done", !.result = result]

\* download.rs 13-38: the URL, the dry-run report, the start of the retry loop
DlStart ==
    /\ dl.pc = "start"
    /\ dl' = IF ~construct_download_url(dl.rom).ok THEN Return("err_unsupported_rom")
             ELSE IF dl.dry_run THEN Return("ok")
             ELSE IF dl.max_retries = 0 THEN [dl EXCEPT !.pc = "response"]
             ELSE [dl EXCEPT !.pc = "attempt"]
    /\ UNCHANGED <<overlayVars, vr, stageVars>>

\* download.rs 39-72: one pass of `for attempt in 1..=max_retries`
DlAttempt ==
    /\ dl.pc = "attempt"
    /\ dl.attempt <= dl.max_retries
    /\ \E got \in {"success", "status", "transport"} :
         dl' = IF got = "success"
               THEN [dl EXCEPT !.events = Append(@, got),
                               !.response = TRUE,
                               !.pc = "response"]
               ELSE IF retry_sleeps(dl.attempt, dl.max_retries)
               THEN [dl EXCEPT !.events = @ \o << got, "sleep" >>,
                               !.attempt = @ + 1]
               ELSE [dl EXCEPT !.events = Append(@, got),
                               !.last_error = got,
                               !.pc = "response"]
    /\ UNCHANGED <<overlayVars, vr, stageVars>>

\* Mutant of DlResponse: with no attempt made the existing file is looked at
DlResponse_reuse ==
    /\ dl.pc = "response"
    /\ dl' = IF dl.response THEN [dl EXCEPT !.pc = "existing"]
             ELSE IF dl.last_error # "none" THEN Return("err_" \o dl.last_error)
             ELSE [dl EXCEPT !.pc = "existing"]
    /\ UNCHANGED <<overlayVars, vr, stageVars>>

\* download.rs 74-81
DlResponse ==
    /\ dl.pc = "response"
    /\ dl' = IF dl.response THEN [dl EXCEPT !.pc = "existing"]
             ELSE IF dl.last_error # "none" THEN Return("err_" \o dl.last_error)
             ELSE Return("err_after_attempts")
    /\ UNCHANGED <<overlayVars, vr, stageVars>>

\* download.rs 87-125: a file of the computed name is already there
DlExisting ==
    /\ dl.pc = "existing"
    /\ dl' = IF ~dl.file.exists THEN [dl EXCEPT !.pc = "create"]
             ELSE IF dl.expected_checksum.some
             THEN LET v == verify_checksum(dl.file, dl.expected_checksum.val)
                  IN  IF v.ok /\ v.val THEN Return("ok")
                      ELSE [dl EXCEPT !.file = NoFile, !.pc = "create"]
             ELSE Return("ok")
    /\ UNCHANGED <<overlayVars, vr, stageVars>>

\* download.rs 126-130: File::create and the body stream
DlCreate ==
    /\ dl.pc = "create"
    /\ dl' = [dl EXCEPT !.file = FileWith(<< >>),
                        !.remaining = dl.body,
                        !.hasher = << >>,
                        !.pc = "stream"]
    /\ UNCHANGED <<overlayVars, vr, stageVars>>

\* Mutant of DlChunk: a failed chunk is retried while attempts are left
DlChunk_retry ==
    /\ dl.pc = "stream"
    /\ dl.remaining # << >>
    /\ \E got \in {"ok", "read_error", "write_error"} :
         dl' = IF got = "ok"
               THEN [dl EXCEPT !.file.content = Append(@, Head(dl.remaining)),
                               !.hasher = Append(@, Head(dl.remaining)),
                               !.remaining = Tail(@)]
               ELSE IF dl.attempt < dl.max_retries
               THEN [dl EXCEPT !.events = Append(@, "sleep"),
                               !.attempt = @ + 1,
                               !.response = FALSE,
                               !.pc = "attempt"]
               ELSE Return("err_" \o got)
    /\ UNCHANGED <<overlayVars, vr, stageVars>>

\* download.rs 131-154: one chunk of the body
DlChunk ==
    /\ dl.pc = "stream"
    /\ dl.remaining # << >>
    /\ \E got \in {"ok", "read_error", "write_error"} :
         dl' = IF got = "ok"
               THEN [dl EXCEPT !.file.content = Append(@, Head(dl.remaining)),
                               !.hasher = Append(@, Head(dl.remaining)),
                               !.remaining = Tail(@)]
               ELSE Return("err_" \o got)
    /\ UNCHANGED <<overlayVars, vr, stageVars>>

\* Mutant of digest_differs: the expected digest is compared as written
digest_differs_case_sensitive(expected_hash, hash_hex) == expected_hash # hash_hex

\* download.rs 164
digest_differs(expected_hash, hash_hex) == to_lowercase(expected_hash) # hash_hex

\* download.rs 156-175: the digest of the streamed bytes, the post-download hook
DlFinish ==
    /\ dl.pc = "stream"
    /\ dl.remaining = << >>
    /\ dl' = IF /\ dl.expected_checksum.some
                /\ digest_differs(dl.expected_checksum.val, sha256_hex(dl.hasher))
             THEN Return("err_checksum")
             ELSE [dl EXCEPT !.pc = "done",
                             !.result = "ok",
                             !.spawned = @ + run_hook(dl.hook).spawned]
    /\ UNCHANGED <<overlayVars, vr, stageVars>>

NextDownload ==
    \/ DlStart
    \/ DlAttempt
    \/ DlResponse
    \/ DlExisting
    \/ DlCreate
    \/ DlChunk
    \/ DlFinish

SpecDownload == InitDownload /\ [][NextDownload]_vars

-----------------------------------------------------------------------------
(* Claims about download_rom *)

Failed(e) == e \in {"status", "transport"}

IsAttempt(e) == e # "sleep"

\* The per-attempt outcomes, in order, without the sleeps between them
Outcomes(ev) == SelectSeq(ev, IsAttempt)

\* The number of the attempt that event idx belongs to or follows
AttemptNo(ev, idx) == Len(Outcomes(SubSeq(ev, 1, idx)))

Sleeps(ev) == Cardinality({idx \in 1..Len(ev) : ev[idx] = "sleep"})

EnteredLoop == ~dl.dry_run /\ construct_download_url(dl.rom).ok /\ dl.pc # "start"

LoopOver == EnteredLoop /\ dl.pc # "attempt"

\* C9: with max_retries >= 1, whatever the outcomes of the attempts, at most
\* max_retries HTTP attempts are made and none follows a success; every failed
\* attempt but the last allowed one is followed by exactly one sleep, and no
\* sleep follows a success or the last allowed attempt; the loop ends with a
\* response or after max_retries failures, and then the error returned is the
\* one of the final attempt; with max_retries = 3 and outcomes fail, fail,
\* success there are 3 attempts, 2 sleeps and a response.
C9_RetryLoop ==
    LET ev  == dl.events
        out == Outcomes(ev)
        n   == Len(out)
        m   == dl.max_retries
    IN  (m >= 1 /\ EnteredLoop) =>
          /\ n <= m
          /\ \A k \in 1..(n - 1) : Failed(out[k])
          /\ \A idx \in 1..Len(ev) :
               /\ ev[idx] = "sleep" =>
                    idx > 1 /\ Failed(ev[idx - 1]) /\ AttemptNo(ev, idx) < m
               /\ (Failed(ev[idx]) /\ AttemptNo(ev, idx) < m) =>
                    idx < Len(ev) /\ ev[idx + 1] = "sleep"
          /\ LoopOver =>
               \/ n >= 1 /\ out[n] = "success" /\ dl.response
               \/ /\ n = m
                  /\ Failed(out[m])
                  /\ ~dl.response
                  /\ dl.pc \in {"response", "done"}
                  /\ dl.pc = "done" => dl.result = "err_" \o out[m]
          /\ (m = 3 /\ n = 3 /\ out[3] = "success") =>
               Sleeps(ev) = 2 /\ dl.response /\ dl.result \notin {"err_status", "err_transport", "err_after_attempts"}

C9_Witness ==
    /\ dl.pc = "done"
    /\ dl.max_retries = 3
    /\ dl.events = <<"transport", "sleep", "transport", "sleep", "success">>
    /\ dl.result = "ok"

\* C10: when the file of the computed name already exists and either matches
\* the expected digest or no digest is expected, download_rom returns its path
\* with no HTTP request issued and the file untouched; when it does not match
\* or cannot be verified, a successful run leaves the fresh download in its place.
C10_ReuseExisting ==
    LET f0      == dl.file0
        exp     == dl.expected_checksum
        v       == verify_checksum(f0, exp.val)
        matches == exp.some /\ v.ok /\ v.val
    IN  (f0.exists /\ construct_download_url(dl.rom).ok /\ dl.max_retries >= 1) =>
          /\ (matches \/ ~exp.some) =>
               /\ dl.events = << >>
               /\ dl.file = f0
               /\ dl.pc = "done" => dl.result = "ok"
          /\ (exp.some /\ ~matches /\ ~dl.dry_run /\ dl.pc = "done" /\ dl.result = "ok") =>
               dl.file = FileWith(dl.body)

\* The body has been written to the end: the stream is exhausted
BodyWritten == dl.pc = "stream" /\ dl.remaining = << >>

\* The expected digest and the digest of the written file differ, whatever the
\* letter case of either
DigestMismatch ==
    /\ dl.expected_checksum.some
    /\ to_lowercase(dl.expected_checksum.val) # to_lowercase(sha256_hex(dl.file.content))

\* C11: once the body has been fully written, the next step ends download_rom
\* and leaves the written file as it is; the result is the checksum error when
\* an expected digest is configured and differs (letter case ignored) from the
\* digest of the written bytes, and the path of the file otherwise.
C11_DigestAfterDownload ==
    [][BodyWritten =>
         /\ dl'.pc = "done"
         /\ dl.file = FileWith(dl.body)
         /\ dl'.file = dl.file
         /\ dl'.result = IF DigestMismatch THEN "err_checksum" ELSE "ok"]_vars

\* A body that does not have the expected digest was written and is still there
C11_Witness ==
    /\ dl.pc = "done"
    /\ dl.result = "err_checksum"
    /\ dl.body = BadBody
    /\ dl.file = FileWith(BadBody)

\* The values of config.rom that are URLs: a scheme, then "://"
HasScheme(rom) ==
    rom \in { <<"http", "s://mirror.example/rom.zip">>, <<"ftp://mirror.example/rom.zip">> }

\* C21: construct_download_url returns config.rom verbatim exactly when it is
\* a URL; for a known distribution name that is no URL it returns the base
\* URL followed by the device and version segments; for any other value
\* download_rom returns the unsupported-ROM error and issues no request.
C21_UrlConstruction ==
    LET u == construct_download_url(dl.rom)
    IN  dl.pc # "start" =>
          /\ HasScheme(dl.rom) <=> (u.ok /\ u.val = dl.rom)
          /\ (~HasScheme(dl.rom) /\ lower_rom(dl.rom) \in KnownRoms) =>
                 u.ok /\ u.val = <<"base_url">> \o lower_rom(dl.rom) \o <<"/builds/device/version">>
          /\ (~HasScheme(dl.rom) /\ lower_rom(dl.rom) \notin KnownRoms) =>
                 /\ ~u.ok
                 /\ dl.pc = "done" /\ dl.result = "err_unsupported_rom"
                 /\ dl.events = << >> /\ dl.file = dl.file0

BodyErrors == {"err_read_error", "err_write_error"}

\* C24: once an attempt has returned a success status, download_rom makes no
\* further attempt and no sleep; a chunk that cannot be read or written ends
\* the call at once with that error, whatever max_retries still allows.
C24_NoRetryAfterSuccess ==
    /\ [][dl.response => dl'.events = dl.events /\ dl'.response]_vars
    /\ [][(dl.pc = "stream" /\ dl'.pc # "stream") =>
            /\ dl'.pc = "done"
            /\ dl'.result \in BodyErrors \cup {"ok", "err_checksum"}]_vars
    /\ [](dl.result \in BodyErrors =>
            /\ dl.pc = "done"
            /\ dl.events # << >>
            /\ dl.events[Len(dl.events)] = "success"
            /\ \A k \in 1..(Len(dl.events) - 1) : dl.events[k] # "success")

\* A chunk failed after the first of three allowed attempts had succeeded
C24_Witness ==
    /\ dl.pc = "done"
    /\ dl.result \in BodyErrors
    /\ dl.max_retries = MaxRetries
    /\ dl.events = <<"success">>
    /\ dl.file.exists

Registered(script) == IF script = "none" THEN 0 ELSE 1

\* C25 (the download stage): when a real download_rom call has completed,
\* the script registered under pre-download and the script registered under
\* post-download have each run exactly once, the first before the stage and
\* the second after it; a name with no script has started no process.
C25_HooksBracketStages ==
    (dl.pc = "done" /\ dl.result = "ok" /\ ~dl.dry_run) =>
        dl.spawned = Registered(dl.pre_hook) + Registered(dl.hook)

ZeroRetries == dl.max_retries = 0 /\ ~dl.dry_run

\* With no attempt allowed: no request, no sleep, no hook, the file of the
\* computed name as it was, and the error of the exhausted attempts
NothingDone ==
    /\ dl.events = << >>
    /\ dl.spawned = 0
    /\ dl.file = dl.file0
    /\ dl.pc = "done" => dl.result = "err_after_attempts"

\* C26 as stated: with max_retries = 0 a real download_rom call issues no
\* request and no sleep, changes no file and always returns the error
\* "Failed to download after 0 attempts".
C26_ZeroRetries_AsStated == ZeroRetries => NothingDone

\* C26: with max_retries = 0 and a config.rom from which a download URL is
\* constructed, a real download_rom call issues no request and no sleep,
\* changes no file and returns the error "Failed to download after 0
\* attempts", also when the file of the computed name exists already.
C26_ZeroRetries ==
    (ZeroRetries /\ construct_download_url(dl.rom).ok) => NothingDone

\* The call has ended with that error although a file that would be reused
\* was there
C26_Witness ==
    /\ ZeroRetries
    /\ dl.pc = "done"
    /\ dl.result = "err_after_attempts"
    /\ dl.file0 = FileWith(GoodBody)
    /\ ~dl.expected_checksum.some
    /\ dl.file = dl.file0

-----------------------------------------------------------------------------
(* rezip.rs, sign.rs: the stage functions finalize_rom calls *)

\* How a started external program ends, or "no_tool": it could not be started
Exits == {"ok", "nonzero", "no_tool"}

\* What lies at the output path: nothing, an archive of an earlier build, or
\* what this build wrote there
OutStates == {"absent", "old", "partial", "packed", "signed", "test_signed"}

\* rezip.rs 9-57; `io` is how the writing goes
rezip_rom(dry_run, out, io) ==
    IF dry_run THEN [ok |-> TRUE, out |-> out]
    ELSE IF io = "create_error" THEN [ok |-> FALSE, out |-> out]
    ELSE IF io = "write_error" THEN [ok |-> FALSE, out |-> "partial"]
    ELSE [ok |-> TRUE, out |-> "packed"]

NoSigning == [some |-> FALSE, method |-> "", custom_command |-> FALSE]

SigningConfig(method, custom_command) ==
    [some |-> TRUE, method |-> method, custom_command |-> custom_command]

SigningConfigs ==
    { NoSigning,
      SigningConfig("apksigner", FALSE),
      SigningConfig("jarsigner", FALSE),
      SigningConfig("custom", TRUE),
      SigningConfig("custom", FALSE),
      SigningConfig("gpg", FALSE) }

\* What a backend returns and does: the programs it started with their exits,
\* the archive at zip_path, the test keys on disk, the separate signed copy
Signed(ok, backend, procs, out, keys, copy) ==
    [ok |-> ok, backend |-> backend, procs |-> procs, out |-> out, keys |-> keys,
     signed_copy |-> copy]

Proc(program, exit) == [program |-> program, exit |-> exit]

\* sign.rs 31-78; apksigner writes <stem>_signed.zip and leaves zip_path alone
sign_with_apksigner(dry_run, out, keys, exit) ==
    IF dry_run THEN Signed(TRUE, "apksigner", << >>, out, keys, FALSE)
    ELSE IF exit = "no_tool" THEN Signed(FALSE, "apksigner", << >>, out, keys, FALSE)
    ELSE Signed(exit = "ok", "apksigner", << Proc("apksigner", exit) >>, out, keys, exit = "ok")

\* sign.rs 80-125; jarsigner signs zip_path in place
sign_with_jarsigner(dry_run, out, keys, exit) ==
    IF dry_run THEN Signed(TRUE, "jarsigner", << >>, out, keys, FALSE)
    ELSE IF exit = "no_tool" THEN Signed(FALSE, "jarsigner", << >>, out, keys, FALSE)
    ELSE Signed(exit = "ok", "jarsigner", << Proc("jarsigner", exit) >>,
                IF exit = "ok" THEN "signed" ELSE out, keys, FALSE)

\* sign.rs 127-159
sign_with_custom_command(dry_run, custom_command, out, keys, exit) ==
    IF ~custom_command THEN Signed(TRUE, "custom", << >>, out, keys, FALSE)
    ELSE IF dry_run THEN Signed(TRUE, "custom", << >>, out, keys, FALSE)
    ELSE IF exit = "no_tool" THEN Signed(FALSE, "custom", << >>, out, keys, FALSE)
    ELSE Signed(exit = "ok", "custom", << Proc("sh -c", exit) >>,
                IF exit = "ok" THEN "signed" ELSE out, keys, FALSE)

\* sign.rs 219-247
generate_test_keys(exit) ==
    IF exit = "no_tool" THEN [ok |-> FALSE, procs |-> << >>, keys |-> FALSE]
    ELSE [ok |-> exit = "ok", procs |-> << Proc("openssl", exit) >>, keys |-> exit = "ok"]

\* sign.rs 161-217
create_test_signature(dry_run, out, keys, keygen_exit, exit) ==
    IF dry_run THEN Signed(TRUE, "test", << >>, out, keys, FALSE)
    ELSE LET gen == IF keys THEN [ok |-> TRUE, procs |-> << >>, keys |-> TRUE]
                    ELSE generate_test_keys(keygen_exit)
         IN  IF ~gen.ok THEN Signed(FALSE, "test", gen.procs, out, gen.keys, FALSE)
             ELSE IF exit = "no_tool" THEN Signed(FALSE, "test", gen.procs, out, gen.keys, FALSE)
             ELSE Signed(TRUE, "test", Append(gen.procs, Proc("python3", exit)),
                         IF exit = "ok" THEN "test_signed" ELSE out, gen.keys, FALSE)

\* sign.rs 8-29
sign_rom(skip_signing, signing, dry_run, out, keys, keygen_exit, exit) ==
    IF skip_signing
    THEN IF signing.some
         THEN CASE signing.method = "apksigner" ->
                       sign_with_apksigner(dry_run, out, keys, exit)
                [] signing.method = "jarsigner" ->
                       sign_with_jarsigner(dry_run, out, keys, exit)
                [] signing.method = "custom" ->
                       sign_with_custom_command(dry_run, signing.custom_command, out, keys, exit)
                [] OTHER -> Signed(TRUE, "none", << >>, out, keys, FALSE)
         ELSE create_test_signature(dry_run, out, keys, keygen_exit, exit)
    ELSE Signed(TRUE, "none", << >>, out, keys, FALSE)

-----------------------------------------------------------------------------
(* finalize.rs: finalize_rom(tmp_dir, config, dry_run) *)

HookNames == {"pre-zip", "post-zip", "pre-sign", "post-sign", "pre-cleanup", "post-cleanup"}

\* config.hooks: for each hook name "none" (no script registered) or how the
\* registered script exits; the tables drawn register no script, one script
\* or a script for every name
HookTables ==
    { [h \in HookNames |-> IF h \in S THEN x ELSE "none"] :
        S \in ({ {}, HookNames } \cup { {h} : h \in HookNames }),
        x \in {"ok", "fail"} }

StageEvent(kind, name, ok) == [kind |-> kind, name |-> name, ok |-> ok]

InitFinalize ==
    /\ OverlayIdle
    /\ vr = VrIdle
    /\ dl = DlIdle
    /\ build = Idle
    /\ ck = Idle
    /\ ar = Idle
    /\ fin \in { [pc           |-> "pre_zip",
                  dry_run      |-> d,
                  skip_signing |-> k,
                  signing      |-> sg,
                  cleanup      |-> c,
                  hooks        |-> h,
                  tmp          |-> "patched",
                  out0         |-> o,
                  out          |-> o,
                  keys0        |-> ks,
                  keys         |-> ks,
                  signed_copy  |-> FALSE,
                  backend      |-> "unselected",
                  procs        |-> << >>,
                  trace        |-> << >>,
                  result       |-> "pending"] :
                 d \in BOOLEAN, k \in BOOLEAN, sg \in SigningConfigs, c \in BOOLEAN,
                 h \in HookTables, o \in {"absent", "old"}, ks \in BOOLEAN }

\* crate::utils::run_hook(&config.hooks, name); with its result dropped
HookCall(f, name) ==
    LET h == run_hook(f.hooks[name])
    IN  IF h.spawned = 0 THEN f
        ELSE [f EXCEPT !.procs = Append(@, Proc("sh script", IF h.ok THEN "ok" ELSE "nonzero")),
                       !.trace = Append(@, StageEvent("hook", name, h.ok))]

FinError(f, result) == [f EXCEPT !.pc = "done", !.result = result]

\* finalize.rs 10-12
FinPreZip ==
    /\ fin.pc = "pre_zip"
    /\ fin' = [HookCall(fin, "pre-zip") EXCEPT !.pc = "rezip"]
    /\ UNCHANGED <<overlayVars, vr, dl, build, ck, ar>>

\* finalize.rs 13
FinRezip ==
    /\ fin.pc = "rezip"
    /\ \E io \in {"ok", "create_error", "write_error"} :
         LET r == rezip_rom(fin.dry_run, fin.out, io)
             f == [fin EXCEPT !.out = r.out,
                              !.trace = Append(@, StageEvent("stage", "rezip", r.ok))]
         IN  fin' = IF r.ok THEN [f EXCEPT !.pc = "post_zip"] ELSE FinError(f, "err_rezip")
    /\ UNCHANGED <<overlayVars, vr, dl, build, ck, ar>>

\* finalize.rs 14
FinPostZip ==
    /\ fin.pc = "post_zip"
    /\ fin' = [HookCall(fin, "post-zip") EXCEPT !.pc = "pre_sign"]
    /\ UNCHANGED <<overlayVars, vr, dl, build, ck, ar>>

\* finalize.rs 15
FinPreSign ==
    /\ fin.pc = "pre_sign"
    /\ fin' = [HookCall(fin, "pre-sign") EXCEPT !.pc = "sign"]
    /\ UNCHANGED <<overlayVars, vr, dl, build, ck, ar>>

\* finalize.rs 16
FinSign ==
    /\ fin.pc = "sign"
    /\ \E keygen_exit \in Exits, exit \in Exits :
         LET r == sign_rom(fin.skip_signing, fin.signing, fin.dry_run, fin.out, fin.keys,
                           keygen_exit, exit)
             f == [fin EXCEPT !.out = r.out,
                              !.keys = r.keys,
                              !.signed_copy = r.signed_copy,
                              !.backend = r.backend,
                              !.procs = @ \o r.procs,
                              !.trace = Append(@, StageEvent("stage", "sign", r.ok))]
         IN  fin' = IF r.ok THEN [f EXCEPT !.pc = "post_sign"] ELSE FinError(f, "err_sign")
    /\ UNCHANGED <<overlayVars, vr, dl, build, ck, ar>>

\* finalize.rs 17
FinPostSign ==
    /\ fin.pc = "post_sign"
    /\ fin' = [HookCall(fin, "post-sign") EXCEPT !.pc = "pre_cleanup"]
    /\ UNCHANGED <<overlayVars, vr, dl, build, ck, ar>>

\* finalize.rs 18-20
FinPreCleanup ==
    /\ fin.pc = "pre_cleanup"
    /\ fin' = IF fin.cleanup
              THEN [HookCall(fin, "pre-cleanup") EXCEPT !.pc = "cleanup"]
              ELSE [fin EXCEPT !.pc = "cleanup"]
    /\ UNCHANGED <<overlayVars, vr, dl, build, ck, ar>>

\* finalize.rs 21-33 and 35-42; a failing remove_dir_all is only warned about
FinCleanup ==
    /\ fin.pc = "cleanup"
    /\ \E io \in {"ok", "error"} :
         fin' = IF ~fin.cleanup THEN [fin EXCEPT !.pc = "done", !.result = "ok"]
                ELSE IF fin.dry_run THEN [fin EXCEPT !.pc = "post_cleanup"]
                ELSE [fin EXCEPT !.pc = "post_cleanup",
                                 !.tmp = IF io = "ok" THEN "removed" ELSE @,
                                 !.trace = Append(@, StageEvent("stage", "cleanup", io = "ok"))]
    /\ UNCHANGED <<overlayVars, vr, dl, build, ck, ar>>

\* finalize.rs 34 and 42
FinPostCleanup ==
    /\ fin.pc = "post_cleanup"
    /\ fin' = [HookCall(fin, "post-cleanup") EXCEPT !.pc = "done", !.result = "ok"]
    /\ UNCHANGED <<overlayVars, vr, dl, build, ck, ar>>

NextFinalize ==
    \/ FinPreZip
    \/ FinRezip
    \/ FinPostZip
    \/ FinPreSign
    \/ FinSign
    \/ FinPostSign
    \/ FinPreCleanup
    \/ FinCleanup
    \/ FinPostCleanup

SpecFinalize == InitFinalize /\ [][NextFinalize]_vars

-----------------------------------------------------------------------------
(* Claims about finalize_rom (specification SpecFinalize) *)

\* C12: in a dry run finalize_rom starts no external process and leaves the
\* filesystem as it found it: the output path, the working tree, the test keys
\* and the signed copy are untouched, whatever hooks are registered.
C12_DryRunTouchesNothing ==
    fin.dry_run =>
        /\ fin.procs = << >>
        /\ fin.out = fin.out0
        /\ fin.keys = fin.keys0
        /\ fin.tmp = "patched"
        /\ ~fin.signed_copy

PropagatingHooks == {"pre-zip", "post-zip", "pre-sign", "post-sign", "pre-cleanup"}

\* C13: when the script of a lifecycle hook exits with a non-zero status, no
\* stage (pack, sign, cleanup) is executed after it and finalize_rom returns
\* an error.
C13_HookFailureAborts ==
    \A k \in 1..Len(fin.trace) :
        (/\ fin.trace[k].kind = "hook"
         /\ fin.trace[k].name \in PropagatingHooks
         /\ ~fin.trace[k].ok) =>
            /\ \A j \in (k + 1)..Len(fin.trace) : fin.trace[j].kind # "stage"
            /\ fin.pc = "done"
            /\ fin.result \notin {"pending", "ok"}

SignRan == fin.backend # "unselected"

SigningPrograms == {"apksigner", "jarsigner", "sh -c", "python3", "openssl"}

SigningProcs == { k \in 1..Len(fin.procs) : fin.procs[k].program \in SigningPrograms }

\* C14: with the skip-signing switch set sign_rom selects no backend, starts
\* no external tool and returns Ok; with the switch not set it selects the
\* test-signature backend when there is no signing configuration, and the
\* backend named by the method when that is apksigner, jarsigner or custom.
C14_SigningSelection ==
    SignRan =>
        IF fin.skip_signing
        THEN fin.backend = "none" /\ SigningProcs = {} /\ fin.result # "err_sign"
        ELSE /\ ~fin.signing.some => fin.backend = "test"
             /\ (fin.signing.some /\ fin.signing.method \in {"apksigner", "jarsigner", "custom"})
                    => fin.backend = fin.signing.method

\* C15: when an external tool or command started by the selected signing
\* backend exits with a non-zero status, sign_rom returns a signing error.
C15_ToolFailureIsError ==
    (SignRan /\ \E k \in SigningProcs : fin.procs[k].exit = "nonzero") =>
        fin.result = "err_sign"

\* C16: after finalize_rom has returned an error from rezip_rom or sign_rom,
\* the output path holds no archive written by this build: it is as it was
\* before the build.
C16_NoPartialArtifact ==
    fin.result \in {"err_rezip", "err_sign"} =>
        /\ fin.out \notin {"partial", "packed", "signed", "test_signed"}
        /\ fin.out = fin.out0

-----------------------------------------------------------------------------
(* main.rs: main() from the acquisition of the base archive to the end *)

Stages == <<"acquire", "extract", "overlay", "pack", "sign", "cleanup">>

\* What one iteration of the patch loop meets (main.rs 62-75)
PatchRuns == {"missing", "ok", "err_copy", "err_del", "err_fdel"}

\* main.rs 38-49: the arguments and the configuration; --no-cleanup clears
\* config.cleanup before any stage runs
InitPipeline ==
    /\ OverlayIdle
    /\ vr = VrIdle
    /\ dl = DlIdle
    /\ fin = Idle
    /\ ck = Idle
    /\ ar = Idle
    /\ \E romzip \in {".download", "rom.zip"}, no_cleanup \in BOOLEAN,
          cleanup \in BOOLEAN, n \in 0..MaxPatches :
         build = [pc         |-> "acquire",
                  romzip     |-> romzip,
                  no_cleanup |-> no_cleanup,
                  cleanup    |-> IF no_cleanup THEN FALSE ELSE cleanup,
                  n          |-> n,
                  i          |-> 1,
                  tmp        |-> "none",
                  content    |-> "none",
                  trace      |-> << >>,
                  result     |-> "pending",
                  failed     |-> "none"]

\* A stage has returned: the entry main() leaves in the build's history
Ran(b, stage, ok) == [b EXCEPT !.trace = Append(@, [stage |-> stage, ok |-> ok])]

\* `?` in main(): the error is returned; a TempDir still owned by main() is
\* dropped, which removes the directory (main.rs 58, before keep() at 76)
BuildAbort(b, stage) ==
    [Ran(b, stage, FALSE) EXCEPT !.pc = "done", !.result = "error", !.failed = stage,
                                 !.tmp = IF @ = "temp" THEN "removed" ELSE @]

\* main.rs 51-56: download_rom, or the path given on the command line
PlAcquire ==
    /\ build.pc = "acquire"
    /\ \E r \in {"ok", "error"} :
         build' = IF build.romzip = ".download" /\ r = "error"
                  THEN BuildAbort(build, "acquire")
                  ELSE [Ran(build, "acquire", TRUE) EXCEPT !.pc = "tempdir"]
    /\ UNCHANGED <<overlayVars, vr, dl, fin, ck, ar>>

\* main.rs 58: tempdir()
PlTempdir ==
    /\ build.pc = "tempdir"
    /\ \E r \in {"ok", "error"} :
         build' = IF r = "error"
                  THEN [build EXCEPT !.pc = "done", !.result = "error", !.failed = "tempdir"]
                  ELSE [build EXCEPT !.pc = "unzip", !.tmp = "temp"]
    /\ UNCHANGED <<overlayVars, vr, dl, fin, ck, ar>>

\* main.rs 60: unzip_rom(&romzip_path, tmp_dir.path())?
PlUnzip ==
    /\ build.pc = "unzip"
    /\ \E r \in {"ok", "error"} :
         build' = IF r = "error"
                  THEN BuildAbort(build, "extract")
                  ELSE [Ran(build, "extract", TRUE) EXCEPT !.pc = "patch", !.content = "extracted"]
    /\ UNCHANGED <<overlayVars, vr, dl, fin, ck, ar>>

\* main.rs 62-75: one iteration of the patch loop
PlPatch ==
    /\ build.pc = "patch"
    /\ build.i <= build.n
    /\ \E r \in PatchRuns :
         build' = IF r \in {"missing", "ok"}
                  THEN [Ran(build, "overlay", TRUE) EXCEPT !.i = @ + 1]
                  ELSE BuildAbort(build, "overlay")
    /\ UNCHANGED <<overlayVars, vr, dl, fin, ck, ar>>

\* main.rs 76: tmp_dir.keep() once the loop is over
PlKeep ==
    /\ build.pc = "patch"
    /\ build.i > build.n
    /\ build' = [build EXCEPT !.pc = "rezip", !.tmp = "kept", !.content = "patched"]
    /\ UNCHANGED <<overlayVars, vr, dl, fin, ck, ar>>

PlRezip_ignore_error ==
    /\ build.pc = "rezip"
    /\ \E r \in {"ok", "error"} :
         build' = [Ran(build, "pack", r = "ok") EXCEPT !.pc = "sign"]
    /\ UNCHANGED <<overlayVars, vr, dl, fin, ck, ar>>

\* main.rs 87: rezip_rom(tmp_dir, &output_path)?
PlRezip ==
    /\ build.pc = "rezip"
    /\ \E r \in {"ok", "error"} :
         build' = IF r = "error"
                  THEN BuildAbort(build, "pack")
                  ELSE [Ran(build, "pack", TRUE) EXCEPT !.pc = "sign"]
    /\ UNCHANGED <<overlayVars, vr, dl, fin, ck, ar>>

\* main.rs 88: sign_rom(&output_path, config).await?
PlSign ==
    /\ build.pc = "sign"
    /\ \E r \in {"ok", "error"} :
         build' = IF r = "error"
                  THEN BuildAbort(build, "sign")
                  ELSE [Ran(build, "sign", TRUE) EXCEPT !.pc = "cleanup"]
    /\ UNCHANGED <<overlayVars, vr, dl, fin, ck, ar>>

\* main.rs 89-99 and 80-81: remove_dir_all when config.cleanup is set (a
\* failure is only warned about), then Ok
PlCleanup ==
    /\ build.pc = "cleanup"
    /\ \E r \in {"ok", "error"} :
         build' = IF build.cleanup
                  THEN [Ran(build, "cleanup", r = "ok") EXCEPT
                            !.pc = "done", !.result = "ok",
                            !.tmp = IF r = "ok" THEN "removed" ELSE @]
                  ELSE [build EXCEPT !.pc = "done", !.result = "ok"]
    /\ UNCHANGED <<overlayVars, vr, dl, fin, ck, ar>>

NextPipeline ==
    \/ PlAcquire
    \/ PlTempdir
    \/ PlUnzip
    \/ PlPatch
    \/ PlKeep
    \/ PlRezip
    \/ PlSign
    \/ PlCleanup

SpecPipeline == InitPipeline /\ [][NextPipeline]_vars

-----------------------------------------------------------------------------
(* Claims about the build as a whole (specification SpecPipeline) *)

Rank(stage) == CHOOSE k \in 1..Len(Stages) : Stages[k] = stage

StageRuns(stage) == { k \in 1..Len(build.trace) : build.trace[k].stage = stage }

\* C17: the stages run in the order acquire, extract, overlay (once per
\* patch), pack, sign, cleanup; a stage runs only after every stage before
\* it has completed without error (the overlay for all patches); after a
\* stage has returned an error nothing else runs and the build ends with
\* that stage's error.
C17_StageOrder ==
    LET t == build.trace IN
    /\ \A k \in 1..Len(t) : \A j \in (k + 1)..Len(t) :
           /\ Rank(t[k].stage) <= Rank(t[j].stage)
           /\ (Rank(t[k].stage) = Rank(t[j].stage)) => t[k].stage = "overlay"
    /\ \A k \in 1..Len(t) : \A r \in 1..(Rank(t[k].stage) - 1) :
           \/ \E j \in 1..(k - 1) : t[j].stage = Stages[r] /\ t[j].ok
           \/ Stages[r] = "overlay" /\ build.n = 0
    /\ \A k \in 1..Len(t) : Rank(t[k].stage) > 3 => Cardinality(StageRuns("overlay")) = build.n
    /\ \A k \in 1..Len(t) :
           (~t[k].ok /\ t[k].stage # "cleanup") =>
               /\ k = Len(t)
               /\ build.pc = "done" /\ build.result = "error" /\ build.failed = t[k].stage
    /\ build.result = "ok" => \A r \in 1..5 : (r = 3 /\ build.n = 0) \/ StageRuns(Stages[r]) # {}

\* A build with MaxPatches patches, all applied, whose pack stage succeeded
\* and whose sign stage returned an error: the build has ended with it
C17_Witness ==
    /\ build.pc = "done"
    /\ build.n = MaxPatches
    /\ Cardinality(StageRuns("overlay")) = MaxPatches
    /\ \E k \in StageRuns("pack") : build.trace[k].ok
    /\ build.result = "error" /\ build.failed = "sign"
    /\ ~build.trace[Len(build.trace)].ok

\* C18: the working tree is removed only after pack and sign have both
\* succeeded and only with the cleanup flag set; with the flag cleared, a
\* working tree that was created still exists with its patched content when
\* the build has finished.
C18_CleanupFollowsFlag ==
    /\ build.tmp = "removed" =>
           /\ build.cleanup
           /\ \E k \in StageRuns("pack") : build.trace[k].ok
           /\ \E k \in StageRuns("sign") : build.trace[k].ok
    /\ (build.pc = "done" /\ ~build.cleanup /\ build.tmp # "none") =>
           build.tmp = "kept" /\ build.content = "patched"

-----------------------------------------------------------------------------
(* checksum.rs: calculate_file_checksum and verify_checksum on bounded inputs *)

\* A file (missing, unreadable, empty or with content) and a string given as
\* the expected digest: every string of digest length over a few hex digits
\* in both letter cases
InitChecksum ==
    /\ OverlayIdle
    /\ vr = VrIdle
    /\ dl = DlIdle
    /\ fin = Idle
    /\ build = Idle
    /\ ar = Idle
    /\ \E file \in {NoFile, UnreadableFile}
                      \cup { FileWith(c) : c \in {<< >>, <<"A">>, GoodBody, BadBody} },
          given \in [1..Len(sha256_hex(<< >>)) -> {"0", "3", "8", "a", "f", "A", "F"}] :
         ck = [pc         |-> "start",
               file       |-> file,
               given      |-> given,
               calculated |-> [ok |-> FALSE, val |-> << >>],
               expected   |-> << >>,
               result     |-> [ok |-> FALSE, val |-> FALSE]]

\* checksum.rs 6-26: calculate_file_checksum(path)
CkCalculate ==
    /\ ck.pc = "start"
    /\ ck' = [ck EXCEPT !.pc = "calculated", !.calculated = calculate_file_checksum(ck.file)]
    /\ UNCHANGED <<overlayVars, vr, dl, fin, build, ar>>

\* checksum.rs 29-32: verify_checksum(path, expected), the expected digest
\* being the given string or the digest just calculated
CkVerify ==
    /\ ck.pc = "calculated"
    /\ \E expected \in {ck.given} \cup (IF ck.calculated.ok THEN {ck.calculated.val} ELSE {}) :
         ck' = [ck EXCEPT !.pc = "done",
                          !.expected = expected,
                          !.result = verify_checksum(ck.file, expected)]
    /\ UNCHANGED <<overlayVars, vr, dl, fin, build, ar>>

NextChecksum ==
    \/ CkCalculate
    \/ CkVerify

SpecChecksum == InitChecksum /\ [][NextChecksum]_vars

-----------------------------------------------------------------------------
(* Claims about the checksum functions (specification SpecChecksum) *)

SwapCase(c) ==
    CASE c = "a" -> "A" [] c = "b" -> "B" [] c = "c" -> "C" [] c = "d" -> "D"
      [] c = "e" -> "E" [] c = "f" -> "F" [] c = "A" -> "a" [] c = "B" -> "b"
      [] c = "C" -> "c" [] c = "D" -> "d" [] c = "E" -> "e" [] c = "F" -> "f"
      [] OTHER -> c

\* str with the letter case changed at any set of positions
CaseChanges(str) ==
    { [k \in 1..Len(str) |-> IF k \in S THEN SwapCase(str[k]) ELSE str[k]] :
        S \in SUBSET (1..Len(str)) }

ZeroDigest == [k \in 1..Len(sha256_hex(<< >>)) |-> "0"]

\* C19: for a readable file, verify_checksum with the digest that
\* calculate_file_checksum returned is true; verify_checksum returns the same
\* for the expected digest in any letter case; and it is false for the
\* all-zero digest when the file is not empty.
C19_VerifyChecksum ==
    (ck.pc = "done" /\ ck.file.exists /\ ck.file.readable) =>
        /\ ck.result.ok
        /\ ck.expected = ck.calculated.val => ck.result.val
        /\ \A v \in CaseChanges(ck.expected) : verify_checksum(ck.file, v) = ck.result
        /\ (ck.expected = ZeroDigest /\ ck.file.content # << >>) => ~ck.result.val

\* The digest of a file with content, given in upper case, is accepted
C19_Witness ==
    /\ ck.pc = "done"
    /\ ck.file = FileWith(GoodBody)
    /\ ck.expected = <<"3", "8", "A", "F">>
    /\ ck.expected # ck.calculated.val
    /\ ck.result = [ok |-> TRUE, val |-> TRUE]

-----------------------------------------------------------------------------
(* rezip.rs, unzip.rs: a tree packed by rezip_rom and extracted by unzip_rom *)

\* Directory trees to pack: nested directories, empty directories, files with
\* different contents, and a file whose name is not valid UTF-8 (the byte
\* 0xff, legal in a file name on Linux)
ArTrees ==
    LET dirsU  == { <<"system">>, <<"system", "app">>, <<"system", "etc">> }
        filesU == { <<"system", "app", "A.apk">>, <<"system", "b<ff>">>, <<"boot.img">> }
        closed(D, F) == \A p \in D \cup F : Len(p) > 1 => Parent(p) \in D
    IN  UNION { { [dirs |-> D, files |-> f] : f \in [F -> {0, 1}] } :
                  <<D, F>> \in { x \in (SUBSET dirsU) \X (SUBSET filesU) : closed(x[1], x[2]) } }

\* Path::to_string_lossy on a relative path (rezip.rs 43, 47): every byte
\* sequence that is not UTF-8 is replaced by U+FFFD
to_string_lossy(name) ==
    [k \in 1..Len(name) |-> IF name[k] = "b<ff>" THEN "b<fffd>" ELSE name[k]]

\* ZipFile::mangled_name (unzip.rs 33): the entry name split at "/", only the
\* normal components kept
mangled_name(name) == SelectSeq(name, LAMBDA c : c \notin {"", ".", ".."})

InitArchive ==
    /\ OverlayIdle
    /\ vr = VrIdle
    /\ dl = DlIdle
    /\ fin = Idle
    /\ build = Idle
    /\ ck = Idle
    /\ \E t \in ArTrees :
         ar = [pc      |-> "pack",
               src     |-> t,
               walked  |-> {},
               entries |-> << >>,
               idx     |-> 1,
               out     |-> [dirs |-> {}, files |-> << >>],
               result  |-> "pending"]

\* rezip.rs 40-51: one entry of the walk (a directory before what it holds,
\* otherwise in the order the file system lists them); a regular file is
\* written with start_file, a directory below the root with add_directory
ArPack ==
    /\ ar.pc = "pack"
    /\ \E p \in (ar.src.dirs \cup DOMAIN ar.src.files) \ ar.walked :
         /\ Len(p) = 1 \/ Parent(p) \in ar.walked
         /\ ar' = [ar EXCEPT
                     !.walked = @ \cup {p},
                     !.entries = IF p \in DOMAIN ar.src.files
                                 THEN Append(@, [name |-> to_string_lossy(p), dir |-> FALSE,
                                                 content |-> ar.src.files[p]])
                                 ELSE Append(@, [name |-> to_string_lossy(p), dir |-> TRUE,
                                                 content |-> -1])]
    /\ UNCHANGED <<overlayVars, vr, dl, fin, build, ck>>

\* rezip.rs 53 zip.finish() once the walk is over; unzip.rs 19-21
ArFinish ==
    /\ ar.pc = "pack"
    /\ ar.walked = ar.src.dirs \cup DOMAIN ar.src.files
    /\ ar' = [ar EXCEPT !.pc = "extract"]
    /\ UNCHANGED <<overlayVars, vr, dl, fin, build, ck>>

\* unzip.rs 31-46: one entry of the archive; 47-49 after the last
ArExtract ==
    /\ ar.pc = "extract"
    /\ LET prefixes(p) == { SubSeq(p, 1, k) : k \in 1..Len(p) }
           create_dir_all(t, p) == [t EXCEPT !.dirs = @ \cup prefixes(p)]
           blocked(t, p) == prefixes(p) \cap DOMAIN t.files # {}
       IN  IF ar.idx > Len(ar.entries)
           THEN ar' = [ar EXCEPT !.pc = "done", !.result = "ok"]
           ELSE LET e       == ar.entries[ar.idx]
                    outpath == mangled_name(e.name)
                    made    == create_dir_all(ar.out, Parent(outpath))
                IN  ar' = IF e.dir
                          THEN IF blocked(ar.out, outpath)
                               THEN [ar EXCEPT !.pc = "done", !.result = "error"]
                               ELSE [ar EXCEPT !.idx = @ + 1,
                                               !.out = create_dir_all(ar.out, outpath)]
                          ELSE IF blocked(ar.out, Parent(outpath)) \/ outpath \in made.dirs
                               THEN [ar EXCEPT !.pc = "done", !.result = "error"]
                               ELSE [ar EXCEPT
                                       !.idx = @ + 1,
                                       !.out = [made EXCEPT !.files =
                                                  [q \in DOMAIN @ \cup {outpath} |->
                                                     IF q = outpath THEN e.content ELSE @[q]]]]
    /\ UNCHANGED <<overlayVars, vr, dl, fin, build, ck>>

NextArchive ==
    \/ ArPack
    \/ ArFinish
    \/ ArExtract

SpecArchive == InitArchive /\ [][NextArchive]_vars

-----------------------------------------------------------------------------
(* Claims about the archive codec (specification SpecArchive) *)

\* C20: a tree packed by rezip_rom and extracted by unzip_rom into an empty
\* directory comes out with the same relative paths, files and directories,
\* and the same file contents.
C20_RoundTrip ==
    ar.pc = "done" => ar.result = "ok" /\ ar.out = ar.src

-----------------------------------------------------------------------------
(* utils.rs, unzip.rs: the stage functions with the dry_run flag set *)

\* unzip.rs 8-50: the archive's tree extracted into out_dir, or, in a dry
\* run, the report alone
unzip_rom(archive, out_dir, dry_run) == IF dry_run THEN out_dir ELSE archive

\* One pass of the patch loop (main.rs 62-75) over the utils.rs functions,
\* from the run state st = [ok, tree, outcome, log], for patch k
apply_patch(st, k, dry_run) ==
    IF ~st.ok THEN st
    ELSE IF ~Src(k).exists
    THEN [st EXCEPT !.outcome = Append(@, "SkippedMissing")]
    ELSE LET c == copy_dir_all(Src(k).tree, st.tree, dry_run)
             d == IF c.ok THEN handle_deletions(Src(k), c.tree, dry_run) ELSE Err
             f == IF d.ok THEN handle_file_deletions(Src(k), d.tree, dry_run) ELSE Err
         IN  IF ~f.ok THEN [st EXCEPT !.ok = FALSE]
             ELSE [ok      |-> TRUE,
                   tree    |-> f.tree,
                   outcome |-> Append(st.outcome, "Applied"),
                   log     |-> st.log \cup { <<k, "directory", item>> : item \in d.acted }
                                      \cup { <<k, "file", item>> : item \in f.acted }]

\* The run over patches 1..k from the tree unzip_rom leaves in tmp_dir
RECURSIVE run_upto(_, _)
run_upto(k, dry_run) ==
    IF k = 0
    THEN [ok |-> TRUE, tree |-> unzip_rom(base, EmptyTree, dry_run), outcome |-> << >>, log |-> {}]
    ELSE apply_patch(run_upto(k - 1, dry_run), k, dry_run)

\* A dry run: unzip_rom has reported and left tmp_dir as it was created
InitDryRun ==
    /\ \E n \in 0..MaxPatches : patches \in [1..n -> PatchSources]
    /\ android_version = 14
    /\ base \in BaseTrees
    /\ tree = unzip_rom(base, EmptyTree, TRUE)
    /\ pc = "dry_loop"
    /\ i = 1
    /\ outcome = << >>
    /\ log = {}
    /\ vr = VrIdle
    /\ dl = DlIdle
    /\ StagesIdle

\* The dry run applies patch i: every "would delete" report is logged
DryRunPatch ==
    /\ pc = "dry_loop"
    /\ i <= Len(patches)
    /\ LET st == apply_patch([ok |-> TRUE, tree |-> tree, outcome |-> outcome, log |-> log],
                             i, TRUE)
       IN  /\ tree' = st.tree
           /\ outcome' = st.outcome
           /\ log' = st.log
           /\ i' = i + 1
           /\ pc' = IF st.ok THEN "dry_loop" ELSE "dry_failed"
    /\ UNCHANGED <<base, patches, android_version, vr, dl, stageVars>>

\* The loop is over
DryRunComplete ==
    /\ pc = "dry_loop"
    /\ i > Len(patches)
    /\ pc' = "dry_done"
    /\ UNCHANGED <<base, patches, android_version, tree, i, outcome, log, vr, dl, stageVars>>

NextDryRun ==
    \/ DryRunPatch
    \/ DryRunComplete

SpecDryRun == InitDryRun /\ [][NextDryRun]_vars

-----------------------------------------------------------------------------
(* Claims about the dry run (specification SpecDryRun) *)

\* C22: when a real run on the same base archive and patch list succeeds,
\* the dry run has reported the same patches as applied or skipped and the
\* same (patch, path) deletions as the real run performed.
C22_DryRunSameDecisions ==
    LET real == run_upto(Len(patches), FALSE)
    IN  (pc = "dry_done" /\ real.ok) =>
            /\ outcome = real.outcome
            /\ log = real.log

-----------------------------------------------------------------------------
(* Claims about the steps of one patch (specification Spec) *)

\* The regular files patch k carries
Carried(k) == Files(SourceTree(patches[k], k))

\* C23: the steps of one patch run in the order copy, directory list, file
\* list; after the patch a regular file it carries and names in its file
\* list is absent, a directory it populates and names in its directory list
\* is absent with everything under it, and a file-list entry under a
\* directory its directory list removed has deleted nothing.
C23_StepOrder ==
    /\ [][/\ pc = "copy" => pc' \in {"del", "failed"}
          /\ pc = "del" => pc' \in {"fdel", "failed"}
          /\ pc = "fdel" => pc' \in {"loop", "failed"}
          /\ pc' = "copy" => pc = "loop"
          /\ pc' = "del" => pc = "copy"
          /\ pc' = "fdel" => pc = "del"]_vars
    /\ [][(pc = "fdel" /\ pc' = "loop") =>
            /\ \A p \in ListedIn(patches[i].fdel) \cap Carried(i) : At(tree', p).kind = "absent"
            /\ \A d \in ListedIn(patches[i].del) :
                   (\E q \in Carried(i) : IsPrefix(d, q) /\ q # d) =>
                       \A q \in AllPaths : IsPrefix(d, q) => At(tree', q).kind = "absent"
            /\ \A p \in ListedIn(patches[i].fdel) :
                   (\E d \in AllPaths : <<i, "directory", d>> \in log /\ IsPrefix(d, p) /\ d # p) =>
                       /\ <<i, "file", p>> \notin log'
                       /\ At(tree, p).kind = "absent"]_vars

\* A patch has been applied that carries system/etc/c.conf, deletes the
\* directory system/etc and names system/etc/c.conf in its file list
C23_Witness ==
    /\ pc = "loop"
    /\ i > 1
    /\ outcome[i - 1] = "Applied"
    /\ c_conf \in Carried(i - 1)
    /\ <<i - 1, "directory", etc>> \in log
    /\ c_conf \in ListedIn(patches[i - 1].fdel)
    /\ <<i - 1, "file", c_conf>> \notin log
    /\ At(tree, etc).kind = "absent"

=============================================================================
